---------------------------- MODULE Spec2Model ----------------------------
(***************************************************************************)
(* A model of the clipboard storage core of the Clipboard project:         *)
(*   - the PID-file lock of a slot (Clipboard::getLock / releaseLock),     *)
(*   - the ignore filter (Clipboard::applyIgnoreRegexes),                  *)
(*   - the slot predicates (holdsData, holdsRawData, isUnused),            *)
(*   - the byte-signature MIME sniffer (inferMIMEType).                    *)
(* Sources: src/src/cb/src/clipboard.hpp, src/src/gui/src/infermime.cpp.   *)
(***************************************************************************)
EXTENDS Integers, Sequences, FiniteSets, TLC

(***************************************************************************)
(* Bounds of the model.                                                    *)
(***************************************************************************)
\* number of tool invocations (processes) that use the same slot
NumProcs == 3

\* longest raw buffer stored in a slot
MaxLen == 4

\* most lines in an ignore file
MaxLines == 2

\* most applyIgnoreRegexes calls in a row
MaxPasses == 2

\* most bytes that follow a signature in a sniffed buffer
MaxTail == 2

\* longest slot name
MaxName == 3

\* most items in a copy session
MaxItems == 4

\* most incrementSuccessesForItem calls in a session
MaxCalls == 6

VARIABLES
    \* ---- lock protocol (one slot, metadata/lock) ----
    locks,      \* the lock files by path: [exists : BOOLEAN, content : Seq(pid)]
    path,       \* the Clipboard object of every process (its name and paths)
    env,        \* the environment variable CLIPBOARD_ALWAYS_PERSIST
    pc,         \* position of every process in getLock / releaseLock
    pid,        \* getLock's local variable `pid` (the owner read from the file)
    pgrp,       \* the process group of every process (fixed at start)
    slept,      \* history: the process ran sleep_for(250ms) in this getLock
    staleRead,  \* history: the owner read at entry was not alive when read
    bypassed,   \* history: getLock returned through the same-group return
    removed,    \* history: what releaseLock found at the path it removed
    \* ---- the slot's directories (data/, metadata/) ----
    dataDir,    \* the data directory exists
    entries,    \* names of the copied entries in data/
    raw,        \* data/rawdata.clipboard: [exists : BOOLEAN, content : text]
    notes,      \* metadata/notes: [exists, content]
    originals,  \* metadata/originals: [exists, content]
    ignore,     \* metadata/ignore: [exists, lines : Seq(text)]
    mimeFile,   \* metadata/mime exists
    answer,     \* the last call of a slot method and what it returned
    passes,     \* number of applyIgnoreRegexes calls made so far
    history,    \* the stored data after each applyIgnoreRegexes call
    before,     \* the stored data when applyIgnoreRegexes was last called
    \* ---- MIME sniffer ----
    content,    \* the buffer given to inferMIMEType
    mime,       \* what inferMIMEType returned for it
    \* ---- one copy session ----
    policy,     \* copying.policy
    interactive,\* the session can ask its user
    log,        \* what happened to every item of the session so far
    successes,  \* the counters files, directories, bytes, clipboards
    seen,       \* the reporting thread's latest read of every counter
    calls,      \* number of incrementSuccessesForItem calls so far
    regressed,  \* history: a read returned less than the read before it
    \* ---- progress status ----
    progress_state \* progress_state of every process

lockVars == <<locks, path, env, pc, pid, pgrp, slept, staleRead, bypassed, removed>>

procVars == <<pc, pid, pgrp, slept, staleRead, bypassed, removed>>

storeVars == <<dataDir, entries, raw, notes, originals, ignore, mimeFile>>

callVars == <<answer, passes, history, before>>

mimeVars == <<content, mime>>

copyVars == <<policy, interactive, log>>

countVars == <<successes, seen, calls, regressed>>

progressVars == <<progress_state>>

sessionVars == <<copyVars, countVars, progressVars>>

vars == <<lockVars, storeVars, callVars, mimeVars, sessionVars>>

Procs == 1..NumProcs

\* thisPID(): a process is identified with its pid.
thisPID(p) == p

\* std::to_string(thisPID()) as the lock file's content; std::stoi reads it back.
to_string(n) == <<n>>

NoFile == [exists |-> FALSE, content |-> <<>>]

(***************************************************************************)
(* The constructor's path computation.  A path is the sequence of its      *)
(* components; a slot name and the name of an entry are sequences of       *)
(* characters, the fixed directory and file names are strings.             *)
(***************************************************************************)
\* global_path.persistent and global_path.temporary, set at start-up
global_path ==
    [persistent |-> <<"~/.clipboard">>, temporary |-> <<"/tmp/Clipboard">>]

\* struct Constants, lines 58-69
data_file_name ==
    <<"r", "a", "w", "d", "a", "t", "a", ".", "c", "l", "i", "p", "b", "o", "a", "r", "d">>

default_clipboard_name == <<"0">>

data_directory == "data"

metadata_directory == "metadata"

notes_name == "notes"

original_files_name == "originals"

lock_name == "lock"

ignore_regex_name == "ignore"

\* the values of the environment variable; getenv returns a null pointer
\* only when the variable is not set
Envs == {"unset", "", "0", "1"}

getenv(e) == e # "unset"

\* a test of the first character only; not what line 87 does
isPersistentFirstOnly(clipboard) == clipboard # <<>> /\ clipboard[1] = "_"

\* line 87: return clipboard.find_first_of("_") != std::string::npos;
isPersistent(clipboard) == \E i \in 1..Len(clipboard) : clipboard[i] = "_"

\* fs::path operator/ with a one-name right operand
Slash(dir, name) == Append(dir, name)

\* a root that leaves the name out; not what line 142 does
SlotRootShared(persistent, name) ==
    IF persistent THEN global_path.persistent ELSE global_path.temporary

\* line 142: root = (is_persistent ? persistent : temporary) / this_name
SlotRoot(persistent, name) ==
    Slash(IF persistent THEN global_path.persistent ELSE global_path.temporary, name)

\* Clipboard() = default
NoClipboard ==
    [this_name |-> <<>>, is_persistent |-> FALSE, root |-> <<>>, data |-> <<>>,
     metadata |-> <<>>, raw |-> <<>>, notes |-> <<>>, originals |-> <<>>,
     lock |-> <<>>, ignore |-> <<>>]

\* lines 137-157: Clipboard(clipboard_name) in environment e
Clipboard(clipboard_name, e) ==
    LET is_persistent == isPersistent(clipboard_name) \/ getenv(e)
        root == SlotRoot(is_persistent, clipboard_name)
        data == Slash(root, data_directory)
        metadata == Slash(root, metadata_directory)
    IN  [this_name |-> clipboard_name,
         is_persistent |-> is_persistent,
         root |-> root,
         data |-> data,
         metadata |-> metadata,
         raw |-> Slash(data, data_file_name),
         notes |-> Slash(metadata, notes_name),
         originals |-> Slash(metadata, original_files_name),
         lock |-> Slash(metadata, lock_name),
         ignore |-> Slash(metadata, ignore_regex_name)]

\* the slots the processes of the lock protocol work on
LockNames == {default_clipboard_name, <<"w", "_">>}

\* the paths at which these slots keep their lock file
LockPaths == {Clipboard(n, e).lock : n \in LockNames, e \in Envs}

NoLocks == [k \in LockPaths |-> NoFile]

\* metadata.lock of the Clipboard object of process p
metadata_lock(p) == locks[path[p].lock]

\* the lock file of the default slot in the default environment
lock == locks[Clipboard(default_clipboard_name, "unset").lock]

\* a process exists as long as it has neither crashed, exited nor terminated
\* on an uncaught exception
alive(p) == p \in Procs /\ pc[p] \notin {"dead", "raised"}

\* bool isLocked() { return fs::exists(metadata.lock); }
isLocked(p) == metadata_lock(p).exists

\* fileContents(metadata.lock): the bytes at the path, none if there is no file
fileContents(p) == IF metadata_lock(p).exists THEN metadata_lock(p).content ELSE <<>>

\* std::stoi throws std::invalid_argument when no conversion can be performed
stoiThrows(s) == Len(s) = 0

stoi(s) == s[1]

\* getpgrp(): the caller's process group
getpgrp(p) == pgrp[p]

\* getpgid(pid): the group of a live process, -1 (ESRCH) for any other pid
getpgid(q) == IF alive(q) THEN pgrp[q] ELSE -1

\* kill(pid, 0): 0 if the process exists, -1 otherwise
kill0(q) == IF alive(q) THEN 0 ELSE -1

\* line 202: if (getpgrp() == getpgid(pid)) return;
SameGroupMutant(p, q) == thisPID(p) = getpgid(q)

SameGroup(p, q) == getpgrp(p) = getpgid(q)

\* line 208: if (kill(pid, 0) == -1) break;
OwnerGoneMutant(q) == FALSE

OwnerGone(q) == kill0(q) = -1

\* line 204: the wait loop probes first and sleeps last
WaitLoopEntryMutant == "sleep"

WaitLoopEntry == "kill"

\* line 210: if (!isLocked()) break;
LockGone(p) == ~isLocked(p)

\* line 214: the content getLock writes
OwnContent(p) == to_string(thisPID(p))

\* line 216: fs::remove(metadata.lock) removes the file whatever it holds
AfterRemoveMutant(p) ==
    IF metadata_lock(p).content = to_string(thisPID(p)) THEN NoFile ELSE metadata_lock(p)

AfterRemove(p) == NoFile

TypeOK ==
    /\ locks \in [LockPaths -> [exists : BOOLEAN, content : {<<>>} \cup {<<q>> : q \in Procs}]]
    /\ pc \in [Procs -> {"idle", "read", "pgid", "kill", "recheck", "sleep", "open",
                         "write", "held", "released", "raised", "dead"}]
    /\ pid \in [Procs -> Procs \cup {0}]
    /\ pgrp \in [Procs -> Procs]
    /\ slept \in [Procs -> BOOLEAN]
    /\ staleRead \in [Procs -> BOOLEAN]
    /\ bypassed \in [Procs -> BOOLEAN]
    /\ removed \in [Procs -> {"none", "nofile", "own", "other"}]

\* the parts of the state a specification leaves alone
ProcsIdle ==
    /\ pc = [p \in Procs |-> "idle"]
    /\ pid = [p \in Procs |-> 0]
    /\ pgrp = [p \in Procs |-> (p + 1) \div 2]
    /\ slept = [p \in Procs |-> FALSE]
    /\ staleRead = [p \in Procs |-> FALSE]
    /\ bypassed = [p \in Procs |-> FALSE]
    /\ removed = [p \in Procs |-> "none"]

\* every process has constructed the default slot in the default environment
SlotIdle ==
    /\ env = "unset"
    /\ path = [p \in Procs |-> Clipboard(default_clipboard_name, "unset")]

StoreIdle ==
    /\ dataDir = TRUE
    /\ entries = {}
    /\ raw = NoFile
    /\ notes = NoFile
    /\ originals = NoFile
    /\ ignore = [exists |-> FALSE, lines |-> <<>>]
    /\ mimeFile = FALSE

CallIdle ==
    /\ answer = [op |-> "none", value |-> FALSE]
    /\ passes = 0
    /\ history = <<>>
    /\ before = [entries |-> {}, raw |-> NoFile]

MimeIdle ==
    /\ content = <<>>
    /\ mime = "unset"

\* line 77: CopyPolicy policy = CopyPolicy::Unknown;
InitialPolicy == "Unknown"

CopyIdle ==
    /\ policy = InitialPolicy
    /\ interactive = TRUE
    /\ log = <<>>

\* line 252: the counters have static storage and start at zero
NoSuccesses == [files |-> 0, directories |-> 0, bytes |-> 0, clipboards |-> 0]

CountIdle ==
    /\ successes = NoSuccesses
    /\ seen = NoSuccesses
    /\ calls = 0
    /\ regressed = FALSE

\* enum class ProgressState, line 239
ProgressState == {"Done", "Active", "Cancel"}

\* no process has been told to cancel
ProgressIdle == progress_state = [p \in Procs |-> "Active"]

SessionIdle == CopyIdle /\ CountIdle /\ ProgressIdle

(***************************************************************************)
(* Initial state: the slot has just been constructed, no lock file, no     *)
(* process has called getLock yet.  Invocations come in shell pipelines of *)
(* two, which share a process group: 1 and 2, 3 and 4, ...                 *)
(***************************************************************************)
LockInit ==
    /\ locks = NoLocks
    /\ SlotIdle
    /\ ProcsIdle

(***************************************************************************)
(* getLock(), one action per system call it makes.                         *)
(***************************************************************************)
\* line 199: if (isLocked()) ... else fall through to the write of line 214
getLockCheck(p) ==
    /\ pc[p] = "idle"
    /\ pc' = [pc EXCEPT ![p] = IF isLocked(p) THEN "read" ELSE "open"]
    /\ UNCHANGED <<locks, path, env, pid, pgrp, slept, staleRead, bypassed, removed>>

\* line 200: auto pid = std::stoi(fileContents(metadata.lock));
getLockRead(p) ==
    /\ pc[p] = "read"
    /\ IF stoiThrows(fileContents(p))
         THEN /\ pc' = [pc EXCEPT ![p] = "raised"]
              /\ UNCHANGED <<pid, staleRead>>
         ELSE /\ pid' = [pid EXCEPT ![p] = stoi(fileContents(p))]
              /\ staleRead' = [staleRead EXCEPT ![p] = ~alive(stoi(fileContents(p)))]
              /\ pc' = [pc EXCEPT ![p] = "pgid"]
    /\ UNCHANGED <<locks, path, env, pgrp, slept, bypassed, removed>>

\* line 202 followed by the write of line 214
getLockPgidWrites(p) ==
    /\ pc[p] = "pgid"
    /\ IF SameGroup(p, pid[p])
         THEN /\ pc' = [pc EXCEPT ![p] = "held"]
              /\ bypassed' = [bypassed EXCEPT ![p] = TRUE]
              /\ locks' = [locks EXCEPT ![path[p].lock] =
                              [exists |-> TRUE, content |-> to_string(thisPID(p))]]
         ELSE /\ pc' = [pc EXCEPT ![p] = WaitLoopEntry]
              /\ UNCHANGED <<bypassed, locks>>
    /\ UNCHANGED <<path, env, pid, pgrp, slept, staleRead, removed>>

\* line 202: if (getpgrp() == getpgid(pid)) return;
getLockPgid(p) ==
    /\ pc[p] = "pgid"
    /\ IF SameGroup(p, pid[p])
         THEN /\ pc' = [pc EXCEPT ![p] = "held"]
              /\ bypassed' = [bypassed EXCEPT ![p] = TRUE]
         ELSE /\ pc' = [pc EXCEPT ![p] = WaitLoopEntry]
              /\ UNCHANGED bypassed
    /\ UNCHANGED <<locks, path, env, pid, pgrp, slept, staleRead, removed>>

\* line 208: if (kill(pid, 0) == -1) break;
getLockKill(p) ==
    /\ pc[p] = "kill"
    /\ pc' = [pc EXCEPT ![p] = IF OwnerGone(pid[p]) THEN "open" ELSE "recheck"]
    /\ UNCHANGED <<locks, path, env, pid, pgrp, slept, staleRead, bypassed, removed>>

\* line 210: if (!isLocked()) break;
getLockRecheck(p) ==
    /\ pc[p] = "recheck"
    /\ pc' = [pc EXCEPT ![p] = IF LockGone(p) THEN "open" ELSE "sleep"]
    /\ UNCHANGED <<locks, path, env, pid, pgrp, slept, staleRead, bypassed, removed>>

\* line 211: std::this_thread::sleep_for(std::chrono::milliseconds(250));
getLockSleep(p) ==
    /\ pc[p] = "sleep"
    /\ slept' = [slept EXCEPT ![p] = TRUE]
    /\ pc' = [pc EXCEPT ![p] = "kill"]
    /\ UNCHANGED <<locks, path, env, pid, pgrp, staleRead, bypassed, removed>>

\* line 214, first half: writeToFile opens the path, creating or truncating it
getLockOpen(p) ==
    /\ pc[p] = "open"
    /\ locks' = [locks EXCEPT ![path[p].lock] = [exists |-> TRUE, content |-> <<>>]]
    /\ pc' = [pc EXCEPT ![p] = "write"]
    /\ UNCHANGED <<path, env, pid, pgrp, slept, staleRead, bypassed, removed>>

\* line 214, second half: the pid is written and getLock returns
getLockWrite(p) ==
    /\ pc[p] = "write"
    /\ locks' = [locks EXCEPT ![path[p].lock] = [exists |-> TRUE, content |-> OwnContent(p)]]
    /\ pc' = [pc EXCEPT ![p] = "held"]
    /\ UNCHANGED <<path, env, pid, pgrp, slept, staleRead, bypassed, removed>>

\* getLock's locals and the history of the call end with the call's use
Forget(p) ==
    /\ pid' = [pid EXCEPT ![p] = 0]
    /\ slept' = [slept EXCEPT ![p] = FALSE]
    /\ staleRead' = [staleRead EXCEPT ![p] = FALSE]

\* line 216: void releaseLock() { fs::remove(metadata.lock); }
releaseLock(p) ==
    /\ pc[p] = "held"
    /\ removed' = [removed EXCEPT ![p] =
                     IF ~metadata_lock(p).exists THEN "nofile"
                     ELSE IF metadata_lock(p).content = to_string(thisPID(p)) THEN "own"
                     ELSE "other"]
    /\ locks' = [locks EXCEPT ![path[p].lock] = AfterRemove(p)]
    /\ pc' = [pc EXCEPT ![p] = "released"]
    /\ Forget(p)
    /\ UNCHANGED <<path, env, pgrp, bypassed>>

\* the invocation ends after releaseLock: the process exits
Exit(p) ==
    /\ pc[p] = "released"
    /\ pc' = [pc EXCEPT ![p] = "dead"]
    /\ bypassed' = [bypassed EXCEPT ![p] = FALSE]
    /\ removed' = [removed EXCEPT ![p] = "none"]
    /\ UNCHANGED <<locks, path, env, pid, pgrp, slept, staleRead>>

\* a process is killed at any point after it started, leaving the file as it is
Crash(p) ==
    /\ pc[p] \notin {"idle", "released", "raised", "dead"}
    /\ pc' = [pc EXCEPT ![p] = "dead"]
    /\ Forget(p)
    /\ bypassed' = [bypassed EXCEPT ![p] = FALSE]
    /\ UNCHANGED <<locks, path, env, pgrp, removed>>

getLockStep(p) ==
    \/ getLockCheck(p)
    \/ getLockRead(p)
    \/ getLockPgid(p)
    \/ getLockKill(p)
    \/ getLockRecheck(p)
    \/ getLockSleep(p)
    \/ getLockOpen(p)
    \/ getLockWrite(p)

LockNext ==
    \E p \in Procs :
        \/ getLockStep(p)
        \/ releaseLock(p)
        \/ Exit(p)
        \/ Crash(p)

\* The lock protocol on a freshly constructed, empty slot.
Init == LockInit /\ StoreIdle /\ CallIdle /\ MimeIdle /\ SessionIdle

Next == LockNext /\ UNCHANGED <<storeVars, callVars, mimeVars, sessionVars>>

Spec == Init /\ [][Next]_vars

\* a step of the code of process p: getLock, releaseLock, the end of main
Run(p) ==
    /\ getLockStep(p) \/ releaseLock(p) \/ Exit(p)
    /\ UNCHANGED <<storeVars, callVars, mimeVars, sessionVars>>

\* every running process keeps taking steps; crashes are not forced
FairSpec ==
    /\ Spec
    /\ \A p \in Procs : WF_vars(Run(p))

(***************************************************************************)
(* The lock protocol with processes on two slots.                          *)
(***************************************************************************)
\* the assignments of slot names to processes: process 1 works on the
\* default slot and at least one process works on the other slot
NameChoices ==
    { f \in [Procs -> LockNames] :
        /\ f[1] = default_clipboard_name
        /\ \E p \in Procs : f[p] # default_clipboard_name }

SlotsInit ==
    /\ locks = NoLocks
    /\ env \in {"unset", "1"}
    /\ path \in { [p \in Procs |-> Clipboard(f[p], env)] : f \in NameChoices }
    /\ ProcsIdle /\ StoreIdle /\ CallIdle /\ MimeIdle /\ SessionIdle

SlotsSpec == SlotsInit /\ [][Next]_vars

(***************************************************************************)
(* The slot's directories.  Text is a sequence of one-character strings.   *)
(***************************************************************************)
\* the names fs::directory_iterator(data) yields
Listing(e, r) == e \cup (IF r.exists THEN {data_file_name} ELSE {})

\* fs::is_empty of a regular file
is_empty(f) == f.content = <<>>

\* lines 166-170
\*   if (!fs::exists(data) || fs::is_empty(data)) return false;
\*   if (fs::exists(data.raw) && fs::is_empty(data.raw)) return false;
\*   return true;
holdsData ==
    IF ~dataDir \/ Listing(entries, raw) = {} THEN FALSE
    ELSE IF raw.exists /\ is_empty(raw) THEN FALSE
    ELSE TRUE

\* line 171: return fs::exists(data.raw) && !fs::is_empty(data.raw);
holdsRawDataOf(r) == r.exists /\ ~is_empty(r)

holdsRawData == holdsRawDataOf(raw)

\* line 172: return fs::exists(metadata.ignore) && !fs::is_empty(metadata.ignore);
holdsIgnoreRegexes == ignore.exists /\ ignore.lines # <<>>

\* lines 191-196
isUnused ==
    IF holdsData THEN FALSE
    ELSE IF notes.exists /\ ~is_empty(notes) THEN FALSE
    ELSE IF originals.exists /\ ~is_empty(originals) THEN FALSE
    ELSE TRUE

\* lines 137-160: the constructor of process 1's Clipboard object computes
\* the paths and creates data/ and metadata/ when absent
Construct(clipboard_name) ==
    /\ path[1] = NoClipboard
    /\ path' = [path EXCEPT ![1] = Clipboard(clipboard_name, env)]
    /\ dataDir' = TRUE
    /\ answer' = [op |-> "none", value |-> FALSE]
    /\ UNCHANGED <<entries, raw, notes, originals, ignore, mimeFile, passes, history, before>>
    /\ UNCHANGED <<locks, env, procVars, mimeVars, sessionVars>>

callHoldsData ==
    /\ path[1] # NoClipboard
    /\ answer' = [op |-> "holdsData", value |-> holdsData]
    /\ UNCHANGED <<storeVars, passes, history, before>>

callHoldsRawData ==
    /\ path[1] # NoClipboard
    /\ answer' = [op |-> "holdsRawData", value |-> holdsRawData]
    /\ UNCHANGED <<storeVars, passes, history, before>>

callIsUnused ==
    /\ path[1] # NoClipboard
    /\ answer' = [op |-> "isUnused", value |-> isUnused]
    /\ UNCHANGED <<storeVars, passes, history, before>>

(***************************************************************************)
(* Regular expressions (std::regex, ECMAScript).  The patterns of the      *)
(* model are built from literal characters, escaped characters (\c), the   *)
(* wildcard "." and the assertion "$"; an opening parenthesis that is      *)
(* never closed makes the constructor throw std::regex_error.              *)
(***************************************************************************)
RECURSIVE Atoms(_)
Atoms(t) ==
    IF t = <<>> THEN <<>>
    ELSE IF Head(t) = "\\"
        THEN IF Len(t) = 1 THEN << <<"bad", "">> >>
             ELSE << <<"lit", t[2]>> >> \o Atoms(SubSeq(t, 3, Len(t)))
    ELSE IF Head(t) = "." THEN << <<"any", "">> >> \o Atoms(Tail(t))
    ELSE IF Head(t) = "$" THEN << <<"eol", "">> >> \o Atoms(Tail(t))
    ELSE IF Head(t) = "(" THEN << <<"bad", "">> >> \o Atoms(Tail(t))
    ELSE << <<"lit", Head(t)>> >> \o Atoms(Tail(t))

\* std::regex(line) throws on a pattern that does not compile
regexThrows(line) == \E i \in 1..Len(Atoms(line)) : Atoms(line)[i][1] = "bad"

\* the position after the match of atoms a in s that starts at i, 0 if none
RECURSIVE MatchEnd(_, _, _)
MatchEnd(a, s, i) ==
    IF a = <<>> THEN i
    ELSE IF Head(a)[1] = "eol"
        THEN IF i = Len(s) + 1 THEN MatchEnd(Tail(a), s, i) ELSE 0
    ELSE IF i > Len(s) THEN 0
    ELSE IF Head(a)[1] = "any" \/ (Head(a)[1] = "lit" /\ Head(a)[2] = s[i])
        THEN MatchEnd(Tail(a), s, i + 1)
    ELSE 0

\* a matcher that accepts a match of any suffix of s (std::regex_search with
\* an end-anchored pattern); not what line 189 calls
regex_matchSuffix(s, a) == \E i \in 1..(Len(s) + 1) : MatchEnd(a, s, i) = Len(s) + 1

\* std::regex_match(s, regex): the whole of s matches
regex_match(s, a) == MatchEnd(a, s, 1) = Len(s) + 1

\* std::regex_replace(s, regex, ""): one left-to-right scan that drops every
\* match and goes on behind it
RECURSIVE RemoveFrom(_, _, _)
RemoveFrom(s, a, i) ==
    IF i > Len(s) THEN <<>>
    ELSE IF MatchEnd(a, s, i) > i THEN RemoveFrom(s, a, MatchEnd(a, s, i))
    ELSE <<s[i]>> \o RemoveFrom(s, a, i + 1)

regex_replace(s, a) == RemoveFrom(s, a, 1)

\* lines 184-185: for (regex : regexes) writeToFile(data.raw, regex_replace(...))
RECURSIVE ReplaceAll(_, _)
ReplaceAll(s, lines) ==
    IF lines = <<>> THEN s
    ELSE ReplaceAll(regex_replace(s, Atoms(Head(lines))), Tail(lines))

\* lines 187-189: for (regex : regexes) for (entry : directory_iterator(data))
\*                    if (regex_match(filename, regex)) fs::remove_all(entry)
RECURSIVE RemoveMatching(_, _)
RemoveMatching(names, lines) ==
    IF lines = <<>> THEN names
    ELSE RemoveMatching({n \in names : ~regex_match(n, Atoms(Head(lines)))}, Tail(lines))

\* lines 173-179: ignoreRegexes() compiles every line; one throw ends the call
ignoreRegexesThrows == \E i \in 1..Len(ignore.lines) : regexThrows(ignore.lines[i])

\* lines 180-190: the stored data [entries, raw] after applyIgnoreRegexes(),
\* with raised = TRUE when the call ends with an exception
applyIgnoreRegexesOn(e, r) ==
    IF ~holdsIgnoreRegexes THEN [raised |-> FALSE, entries |-> e, raw |-> r]
    ELSE IF ignoreRegexesThrows THEN [raised |-> TRUE, entries |-> e, raw |-> r]
    ELSE IF holdsRawDataOf(r)
        THEN [raised |-> FALSE, entries |-> e,
              raw |-> [exists |-> TRUE, content |-> ReplaceAll(r.content, ignore.lines)]]
    ELSE LET left == RemoveMatching(Listing(e, r), ignore.lines)
         IN  [raised |-> FALSE,
              entries |-> left \ {data_file_name},
              raw |-> IF data_file_name \in left THEN r ELSE NoFile]

applyIgnoreRegexes ==
    /\ passes < MaxPasses
    /\ LET res == applyIgnoreRegexesOn(entries, raw)
       IN  /\ entries' = res.entries
           /\ raw' = res.raw
           /\ history' = Append(history, [entries |-> res.entries, raw |-> res.raw])
           /\ before' = [entries |-> entries, raw |-> raw]
           /\ answer' = [op |-> "applyIgnoreRegexes", value |-> ~res.raised]
    /\ passes' = passes + 1
    /\ UNCHANGED <<dataDir, notes, originals, ignore, mimeFile>>

(***************************************************************************)
(* Inputs of the slot specifications.                                      *)
(***************************************************************************)
Names == { <<"a", ".", "t", "m", "p">>, <<"b", ".", "t", "x", "t">>, <<".", "t", "m", "p">> }

RECURSIVE TextsUpTo(_, _)
TextsUpTo(chars, n) ==
    IF n = 0 THEN { <<>> }
    ELSE TextsUpTo(chars, n - 1)
           \cup { Append(t, c) : t \in TextsUpTo(chars, n - 1), c \in chars }

Buffers == TextsUpTo({"a", "b"}, MaxLen)

\* ab, a, \.tmp$, a.tmp, and a pattern that does not compile
Lines == { <<"a", "b">>, <<"a">>, <<"\\", ".", "t", "m", "p", "$">>,
           <<"a", ".", "t", "m", "p">>, <<"(">> }

RECURSIVE LineSeqs(_)
LineSeqs(n) ==
    IF n = 0 THEN { <<>> }
    ELSE LineSeqs(n - 1) \cup { Append(l, x) : l \in LineSeqs(n - 1), x \in Lines }

Files(texts) == {NoFile} \cup { [exists |-> TRUE, content |-> t] : t \in texts }

IgnoreFiles(n) ==
    { [exists |-> FALSE, lines |-> <<>>] } \cup { [exists |-> TRUE, lines |-> l] : l \in LineSeqs(n) }

\* any content of the slot's directories; the slot predicates are asked
StoreInit ==
    /\ dataDir \in BOOLEAN
    /\ entries \in (IF dataDir THEN SUBSET Names ELSE { {} })
    /\ raw \in (IF dataDir THEN Files({ <<>>, <<"a", "b">> }) ELSE {NoFile})
    /\ notes \in Files({ <<>>, <<"n">> })
    /\ originals \in Files({ <<>>, <<"o">> })
    /\ ignore \in IgnoreFiles(1)
    /\ mimeFile \in BOOLEAN
    /\ locks \in {NoLocks, [NoLocks EXCEPT ![Clipboard(default_clipboard_name, "unset").lock]
                                  = [exists |-> TRUE, content |-> to_string(1)]]}
    /\ env = "unset"
    /\ path \in { [p \in Procs |-> IF p = 1 THEN c ELSE NoClipboard] :
                     c \in {NoClipboard, Clipboard(default_clipboard_name, "unset")} }
    /\ ProcsIdle /\ CallIdle /\ MimeIdle /\ SessionIdle

StoreNext ==
    \/ Construct(default_clipboard_name)
    \/ /\ \/ callHoldsData
          \/ callHoldsRawData
          \/ callIsUnused
       /\ UNCHANGED <<lockVars, mimeVars, sessionVars>>

StoreSpec == StoreInit /\ [][StoreNext]_vars

\* a constructed slot with any stored data and any ignore file; the filter runs
IgnoreInit ==
    /\ dataDir = TRUE
    /\ entries \in SUBSET Names
    /\ raw \in Files(Buffers)
    /\ ignore \in IgnoreFiles(MaxLines)
    /\ notes \in Files({ <<"n">> })
    /\ originals = NoFile /\ mimeFile = FALSE
    /\ locks = NoLocks
    /\ SlotIdle /\ ProcsIdle /\ CallIdle /\ MimeIdle /\ SessionIdle

IgnoreNext == applyIgnoreRegexes /\ UNCHANGED <<lockVars, mimeVars, sessionVars>>

IgnoreSpec == IgnoreInit /\ [][IgnoreNext]_vars

\* the slot names an invocation may be given
SlotNames == TextsUpTo({"0", "w", "_"}, MaxName) \ { <<>> }

\* one invocation constructs its Clipboard object, under any name, in any
\* environment, whether or not the directories are left from an earlier run
RouteInit ==
    /\ env \in Envs
    /\ path = [p \in Procs |-> NoClipboard]
    /\ dataDir \in BOOLEAN
    /\ entries = {} /\ raw = NoFile /\ notes = NoFile /\ originals = NoFile
    /\ ignore = [exists |-> FALSE, lines |-> <<>>] /\ mimeFile = FALSE
    /\ locks = NoLocks
    /\ ProcsIdle /\ CallIdle /\ MimeIdle /\ SessionIdle

RouteNext == \E name \in SlotNames : Construct(name)

RouteSpec == RouteInit /\ [][RouteNext]_vars

\* path x lies under directory dir
Under(dir, x) == Len(x) > Len(dir) /\ SubSeq(x, 1, Len(dir)) = dir

\* C14: the root of a constructed slot is the persistent base followed by the
\* slot's name if the name contains an underscore or the environment variable
\* CLIPBOARD_ALWAYS_PERSIST is set, and the temporary base followed by the
\* name otherwise; data, metadata and the lock file lie under that root.
SlotRouting ==
    path[1] # NoClipboard =>
        LET name == path[1].this_name
            marked == (\E i \in 1..Len(name) : name[i] = "_") \/ env # "unset"
        IN  /\ path[1].root = (IF marked THEN global_path.persistent
                                         ELSE global_path.temporary) \o <<name>>
            /\ Under(path[1].root, path[1].data)
            /\ Under(path[1].root, path[1].metadata)
            /\ Under(path[1].root, path[1].lock)

\* the slot w_ was constructed without the override and lies under the
\* persistent base
UnderscoreRoutedPersistent ==
    /\ env = "unset"
    /\ path[1].this_name = <<"w", "_">>
    /\ path[1].lock = global_path.persistent \o << <<"w", "_">>, metadata_directory, lock_name >>

(***************************************************************************)
(* The slot's properties.                                                  *)
(***************************************************************************)
\* C7: applyIgnoreRegexes is idempotent: the stored data after every further
\* call equals the stored data after the first call.
FilterIdempotent == \A i \in 1..Len(history) : history[i] = history[1]

\* C9: holdsData() is true exactly when the data directory is not empty and
\* its content is not just one empty raw-buffer file.
HoldsDataAsSpecified ==
    answer.op = "holdsData" =>
        (answer.value <=>
            /\ dataDir
            /\ Listing(entries, raw) # {}
            /\ ~(Listing(entries, raw) = {data_file_name} /\ is_empty(raw)))

\* C10: isUnused() is true exactly when the data directory has no entry other
\* than an empty raw-buffer file and notes and originals are absent or empty.
UnusedIffNothingStored ==
    answer.op = "isUnused" =>
        (answer.value <=>
            /\ entries = {}
            /\ ~raw.exists \/ is_empty(raw)
            /\ ~notes.exists \/ is_empty(notes)
            /\ ~originals.exists \/ is_empty(originals))

(***************************************************************************)
(* The ignore filter's properties.                                         *)
(***************************************************************************)
\* the lines of an ignore file that compile
ValidLines(lines) == SelectSeq(lines, LAMBDA l : ~regexThrows(l))

\* the last applyIgnoreRegexes call found a raw buffer / a file set
RawMode == holdsRawDataOf(before.raw)

Applied == answer.op = "applyIgnoreRegexes"

\* the call returned without an exception
Returned == Applied /\ answer.value

\* C11: a line of the ignore file that does not compile fails alone: after
\* applyIgnoreRegexes() on an ignore file with such a line, every line that
\* compiles has been applied to the stored data.
InvalidLineFailsAlone ==
    (Applied /\ ignoreRegexesThrows) =>
        IF RawMode
        THEN raw = [exists |-> TRUE,
                    content |-> ReplaceAll(before.raw.content, ValidLines(ignore.lines))]
        ELSE Listing(entries, raw)
                = RemoveMatching(Listing(before.entries, before.raw), ValidLines(ignore.lines))

\* the pattern \.tmp$ and the names of the specification's scenario
TmpAtEnd == <<"\\", ".", "t", "m", "p", "$">>

ATmp == <<"a", ".", "t", "m", "p">>

BTxt == <<"b", ".", "t", "x", "t">>

\* the pattern of line ends with the assertion $
EndAnchored(line) ==
    /\ ~regexThrows(line)
    /\ Atoms(line) # <<>>
    /\ Atoms(line)[Len(Atoms(line))][1] = "eol"

\* some suffix of name n is a match of the pattern
EndsInMatch(n, line) == \E i \in 1..(Len(n) + 1) : MatchEnd(Atoms(line), n, i) = Len(n) + 1

\* the whole of name n is a match of the pattern
WholeNameMatch(n, line) == MatchEnd(Atoms(line), n, 1) = Len(n) + 1

\* the last call filtered a file set with one end-anchored pattern
OneAnchoredPattern ==
    /\ Applied /\ ~RawMode
    /\ Len(ignore.lines) = 1
    /\ EndAnchored(ignore.lines[1])

\* C12 as stated: in file-set mode an end-anchored pattern deletes exactly
\* the entries whose name ends in a match of it; \.tmp$ on a.tmp and b.txt
\* leaves exactly b.txt.
SuffixMatchDeletes ==
    OneAnchoredPattern =>
        entries = {n \in before.entries : ~EndsInMatch(n, ignore.lines[1])}

\* C12 amended: in file-set mode an end-anchored pattern deletes exactly the
\* entries whose whole name is a match of it; an entry whose name only ends in
\* a match is kept, so \.tmp$ on a.tmp and b.txt leaves both.
SuffixMatchKeeps ==
    OneAnchoredPattern =>
        entries = {n \in before.entries : ~WholeNameMatch(n, ignore.lines[1])}

\* the scenario: \.tmp$ was applied to a.tmp and b.txt, and both are left
TmpScenarioKeepsBoth ==
    /\ OneAnchoredPattern
    /\ ignore.lines = <<TmpAtEnd>>
    /\ before.entries = {ATmp, BTxt} /\ ~before.raw.exists
    /\ entries = {ATmp, BTxt}

\* C13: in file-set mode applyIgnoreRegexes() leaves in the data directory
\* exactly the entries whose whole name no pattern of the ignore file matches,
\* and changes nothing under metadata.
FileSetFilter ==
    [][(passes' = passes + 1 /\ ~holdsRawData) =>
          /\ Listing(entries', raw')
                = {n \in Listing(entries, raw) :
                      \A i \in 1..Len(ignore.lines) : ~WholeNameMatch(n, ignore.lines[i])}
          /\ raw' \in {raw, NoFile}
          /\ UNCHANGED <<notes, originals, ignore, mimeFile, locks>>]_vars

\* the same for the calls that return, which are the calls on an ignore file
\* whose lines all compile
FileSetFilterWhenCompiled ==
    [][(passes' = passes + 1 /\ answer'.value /\ ~holdsRawData) =>
          /\ Listing(entries', raw')
                = {n \in Listing(entries, raw) :
                      \A i \in 1..Len(ignore.lines) : ~WholeNameMatch(n, ignore.lines[i])}
          /\ raw' \in {raw, NoFile}
          /\ UNCHANGED <<notes, originals, ignore, mimeFile, locks>>]_vars

\* the buffer s after the first k patterns of lines, each applied to the
\* result of the one before
RECURSIVE AfterPatterns(_, _, _)
AfterPatterns(s, lines, k) ==
    IF k = 0 THEN s
    ELSE regex_replace(AfterPatterns(s, lines, k - 1), Atoms(lines[k]))

\* C19: in raw-buffer mode applyIgnoreRegexes() leaves the buffer that results
\* from removing the matches of each pattern, in the order of the ignore
\* file, from what the previous pattern left; no entry of the data directory
\* is deleted.
RawBufferFilter ==
    (Applied /\ RawMode) =>
        /\ raw = [exists |-> TRUE,
                  content |-> AfterPatterns(before.raw.content, ignore.lines,
                                            Len(ignore.lines))]
        /\ entries = before.entries

\* the same for the calls that return, which are the calls on an ignore file
\* whose lines all compile
RawBufferFilterWhenCompiled ==
    (Returned /\ RawMode) =>
        /\ raw = [exists |-> TRUE,
                  content |-> AfterPatterns(before.raw.content, ignore.lines,
                                            Len(ignore.lines))]
        /\ entries = before.entries

(***************************************************************************)
(* The MIME sniffer (infermime.cpp).  A buffer is a sequence of bytes.     *)
(***************************************************************************)
\* the calls of beginning_matches in the order of lines 31-170, each with the
\* MIME string its if statement returns
Table == <<
    [sig |-> <<0, 0, 0, 12, 74, 88, 76, 32, 13, 10, 135, 10>>, offset |-> 0, mime |-> "image/jxl"],
    [sig |-> <<60, 63, 120, 109, 108, 32, 118, 101, 114, 115, 105, 111, 110, 61, 34, 49,
              46, 48, 34, 32, 101, 110, 99, 111, 100, 105, 110, 103, 61, 34, 85, 84,
              70, 45, 56, 34, 63, 62>>, offset |-> 0, mime |-> "text/xml"],
    [sig |-> <<0, 0, 1, 0>>, offset |-> 0, mime |-> "image/x-icon"],
    [sig |-> <<0, 0, 1, 179>>, offset |-> 0, mime |-> "video/mpeg"],
    [sig |-> <<0, 0, 1, 186>>, offset |-> 0, mime |-> "video/mpeg"],
    [sig |-> <<0, 0, 254, 255>>, offset |-> 0, mime |-> "text/plain"],
    [sig |-> <<0, 1, 0, 0, 0>>, offset |-> 0, mime |-> "font/ttf"],
    [sig |-> <<0, 60, 0, 63, 0, 120, 0, 109, 0, 108, 0, 32>>, offset |-> 0, mime |-> "text/xml"],
    [sig |-> <<0, 97, 115, 109>>, offset |-> 0, mime |-> "application/wasm"],
    [sig |-> <<0, 0, 0, 12, 106, 80, 32, 32, 13, 10, 135, 10>>, offset |-> 0, mime |-> "image/jp2"],
    [sig |-> <<255, 79, 255, 81>>, offset |-> 0, mime |-> "image/jp2"],
    [sig |-> <<4, 34, 77, 24>>, offset |-> 0, mime |-> "application/x-lz4"],
    [sig |-> <<10, 13, 13, 10>>, offset |-> 0, mime |-> "application/vnd.tcpdump.pcap"],
    [sig |-> <<10, 240, 29, 192>>, offset |-> 0, mime |-> "application/x-winbox"],
    [sig |-> <<27, 76, 117, 97>>, offset |-> 0, mime |-> "text/x-lua"],
    [sig |-> <<31, 139>>, offset |-> 0, mime |-> "application/gzip"],
    [sig |-> <<31, 157>>, offset |-> 0, mime |-> "application/x-lzw"],
    [sig |-> <<31, 160>>, offset |-> 0, mime |-> "application/x-lzh"],
    [sig |-> <<2, 100, 115, 115>>, offset |-> 0, mime |-> "audio/dss"],
    [sig |-> <<33, 60, 97, 114, 99, 104, 62, 10>>, offset |-> 0, mime |-> "application/x-deb"],
    [sig |-> <<37, 33, 80, 83>>, offset |-> 0, mime |-> "application/postscript"],
    [sig |-> <<37, 80, 68, 70, 45>>, offset |-> 0, mime |-> "application/pdf"],
    [sig |-> <<39, 5, 25, 86>>, offset |-> 0, mime |-> "application/x-uboot"],
    [sig |-> <<40, 181, 47, 253>>, offset |-> 0, mime |-> "application/zstd"],
    [sig |-> <<45, 45, 45, 45, 45, 66, 69, 71, 73, 78, 32, 67, 69, 82, 84, 73,
              70, 73, 67, 65, 84, 69, 45, 45, 45, 45, 45>>, offset |-> 0, mime |-> "application/x-x509-user-cert"],
    [sig |-> <<45, 45, 45, 45, 45, 66, 69, 71, 73, 78, 32, 67, 69, 82, 84, 73,
              70, 73, 67, 65, 84, 69, 32, 82, 69, 81, 85, 69, 83, 84, 45, 45,
              45, 45, 45>>, offset |-> 0, mime |-> "application/x-x509-user-cert"],
    [sig |-> <<45, 45, 45, 45, 45, 66, 69, 71, 73, 78, 32, 80, 82, 73, 86, 65,
              84, 69, 32, 75, 69, 89, 45, 45, 45, 45, 45>>, offset |-> 0, mime |-> "application/x-x509-user-cert"],
    [sig |-> <<45, 45, 45, 45, 45, 66, 69, 71, 73, 78, 32, 68, 83, 65, 32, 80,
              82, 73, 86, 65, 84, 69, 32, 75, 69, 89, 45, 45, 45, 45, 45>>, offset |-> 0, mime |-> "application/x-x509-user-cert"],
    [sig |-> <<45, 45, 45, 45, 45, 66, 69, 71, 73, 78, 32, 82, 83, 65, 32, 80,
              82, 73, 86, 65, 84, 69, 32, 75, 69, 89, 45, 45, 45, 45, 45>>, offset |-> 0, mime |-> "application/x-x509-user-cert"],
    [sig |-> <<45, 108, 104, 48, 45>>, offset |-> 2, mime |-> "application/x-lzh"],
    [sig |-> <<45, 108, 104, 49>>, offset |-> 2, mime |-> "application/x-lzh"],
    [sig |-> <<45, 108, 104, 50, 45>>, offset |-> 2, mime |-> "application/x-lzh"],
    [sig |-> <<45, 108, 104, 51, 45>>, offset |-> 2, mime |-> "application/x-lzh"],
    [sig |-> <<45, 108, 104, 52, 45>>, offset |-> 2, mime |-> "application/x-lzh"],
    [sig |-> <<45, 108, 104, 53, 45>>, offset |-> 2, mime |-> "application/x-lzh"],
    [sig |-> <<45, 108, 104, 100, 45>>, offset |-> 2, mime |-> "application/x-lzh"],
    [sig |-> <<42, 42, 65, 67, 69, 42, 42>>, offset |-> 7, mime |-> "application/x-ace"],
    [sig |-> <<43, 47, 118, 56, 45>>, offset |-> 0, mime |-> "text/plain"],
    [sig |-> <<43, 47, 118, 57, 45>>, offset |-> 0, mime |-> "text/plain"],
    [sig |-> <<43, 47, 118, 43>>, offset |-> 0, mime |-> "text/plain"],
    [sig |-> <<43, 47, 118, 45>>, offset |-> 0, mime |-> "text/plain"],
    [sig |-> <<60, 33, 68, 79, 67, 84, 89, 80, 69, 32, 104, 116, 109, 108, 62>>, offset |-> 0, mime |-> "text/html"],
    [sig |-> <<137, 80, 78, 71, 13, 10, 26, 10>>, offset |-> 0, mime |-> "image/png"],
    [sig |-> <<255, 216, 255>>, offset |-> 0, mime |-> "image/jpeg"],
    [sig |-> <<71, 73, 70, 56, 55, 97>>, offset |-> 0, mime |-> "image/gif"],
    [sig |-> <<71, 73, 70, 56, 57, 97>>, offset |-> 0, mime |-> "image/gif"],
    [sig |-> <<82, 73, 70, 70, 0, 0, 0, 0, 87, 69, 66, 80, 86, 80, 56, 32>>, offset |-> 0, mime |-> "image/webp"],
    [sig |-> <<66, 77>>, offset |-> 0, mime |-> "image/bmp"],
    [sig |-> <<73, 73, 42, 0>>, offset |-> 0, mime |-> "image/tiff"],
    [sig |-> <<77, 77, 0, 42>>, offset |-> 0, mime |-> "image/tiff"],
    [sig |-> <<80, 75, 3, 4>>, offset |-> 0, mime |-> "application/zip"],
    [sig |-> <<80, 75, 5, 6>>, offset |-> 0, mime |-> "application/zip"],
    [sig |-> <<80, 75, 7, 8>>, offset |-> 0, mime |-> "application/zip"],
    [sig |-> <<55, 122, 188, 175, 39, 28>>, offset |-> 0, mime |-> "application/x-7z-compressed"],
    [sig |-> <<82, 97, 114, 33, 26, 7, 0>>, offset |-> 0, mime |-> "application/vnd.rar"],
    [sig |-> <<73, 68, 51>>, offset |-> 0, mime |-> "audio/mpeg"],
    [sig |-> <<102, 116, 121, 112, 109, 112, 52, 50>>, offset |-> 0, mime |-> "video/mp4"],
    [sig |-> <<102, 116, 121, 112, 105, 115, 111, 109>>, offset |-> 0, mime |-> "video/mp4"],
    [sig |-> <<102, 116, 121, 112, 77, 52, 86, 32>>, offset |-> 0, mime |-> "video/mp4"],
    [sig |-> <<102, 116, 121, 112, 77, 52, 65, 32>>, offset |-> 0, mime |-> "video/mp4"],
    [sig |-> <<79, 103, 103, 83>>, offset |-> 0, mime |-> "audio/ogg"],
    [sig |-> <<102, 76, 97, 67>>, offset |-> 0, mime |-> "audio/flac"],
    [sig |-> <<117, 115, 116, 97, 114>>, offset |-> 0, mime |-> "application/x-tar"],
    [sig |-> <<253, 55, 122, 88, 90, 0>>, offset |-> 0, mime |-> "application/x-xz"],
    [sig |-> <<66, 90, 104>>, offset |-> 0, mime |-> "application/x-bzip2"],
    [sig |-> <<127, 69, 76, 70>>, offset |-> 0, mime |-> "application/x-executable"]
>>

Min(a, b) == IF a < b THEN a ELSE b

\* std::string_view::substr(pos, count): the characters [pos, pos + min(count, size - pos))
substr(s, pos, count) == SubSeq(s, pos + 1, pos + Min(count, Len(s) - pos))

\* std::string_view::substr throws std::out_of_range when pos > size()
substrThrows(s, pos) == pos > Len(s)

\* a lambda without the length test; not what line 26 does
TooShortNeverTested(c, pattern, offset) == FALSE

\* line 26: if (content.size() < (pattern.size() + offset)) return false;
TooShort(c, pattern, offset) == Len(c) < Len(pattern) + offset

\* lines 25-28
\*   if (content.size() < (pattern.size() + offset)) return false;
\*   return content.substr(0 + offset, pattern.size() + offset) == pattern;
beginning_matches(c, pattern, offset) ==
    IF TooShort(c, pattern, offset) THEN FALSE
    ELSE IF substrThrows(c, 0 + offset) THEN FALSE
    ELSE substr(c, 0 + offset, Len(pattern) + offset) = pattern

\* the call of the lambda ends with the exception of substr
beginning_matchesThrows(c, pattern, offset) ==
    ~TooShort(c, pattern, offset) /\ substrThrows(c, 0 + offset)

\* the table entries whose test succeeds on buffer c
Hits(c) == { i \in DOMAIN Table : beginning_matches(c, Table[i].sig, Table[i].offset) }

\* the table entries whose test throws on buffer c
Throws(c) ==
    { i \in DOMAIN Table : beginning_matchesThrows(c, Table[i].sig, Table[i].offset) }

\* lines 21-173: the tests run in the order of the table; the first that
\* succeeds returns its MIME string, one that throws ends the call
inferMIMEType(c) ==
    LET stops == Hits(c) \cup Throws(c)
        first == CHOOSE i \in stops : \A j \in stops : i <= j
    IN  IF stops = {} THEN "nullopt"
        ELSE IF first \in Throws(c) THEN "out_of_range"
        ELSE Table[first].mime

Sniff ==
    /\ mime = "unset"
    /\ mime' = inferMIMEType(content)
    /\ UNCHANGED content

\* the bytes that may follow a signature, and the buffers without one
Tails == TextsUpTo({0, 65}, MaxTail)

\* filler in front of a signature that sits at an offset
Pad(n) == [i \in 1..n |-> 120]

\* every signature at its offset followed by every tail, every signature with
\* its last byte missing, and the tails alone
MimeBuffers ==
    { Pad(Table[i].offset) \o Table[i].sig \o t : i \in DOMAIN Table, t \in Tails }
      \cup { Pad(Table[i].offset) \o SubSeq(Table[i].sig, 1, Len(Table[i].sig) - 1) :
                i \in DOMAIN Table }
      \cup Tails

MimeInit ==
    /\ content \in MimeBuffers
    /\ mime = "unset"
    /\ locks = NoLocks
    /\ SlotIdle /\ ProcsIdle /\ StoreIdle /\ CallIdle /\ SessionIdle

MimeNext == Sniff /\ UNCHANGED <<lockVars, storeVars, callVars, sessionVars>>

MimeSpec == MimeInit /\ [][MimeNext]_vars

\* the signature of entry e occurs in c at e's offset
SignatureAt(c, e) ==
    /\ Len(c) >= e.offset + Len(e.sig)
    /\ SubSeq(c, e.offset + 1, e.offset + Len(e.sig)) = e.sig

\* C8: inferMIMEType returns the MIME string of the first table entry whose
\* signature occurs in the buffer at the entry's offset, whatever follows the
\* signature, and nothing when there is no such entry.
SniffIsFirstSignature ==
    mime # "unset" =>
        LET found == { i \in DOMAIN Table : SignatureAt(content, Table[i]) }
        IN  IF found = {} THEN mime = "nullopt"
            ELSE mime = Table[CHOOSE i \in found : \A j \in found : i <= j].mime

(***************************************************************************)
(* The lock protocol's properties.                                         *)
(***************************************************************************)
InWaitLoop(p) == pc[p] \in {"kill", "recheck", "sleep"}

\* getLock has returned and releaseLock has not been called yet
Holding(p) == pc[p] = "held"

\* C1: at most one process group is between the return of getLock and the call
\* of releaseLock on the slot: two processes of different process groups never
\* hold the slot at the same time.
MutualExclusion ==
    \A p, q \in Procs :
        (Holding(p) /\ Holding(q) /\ getpgrp(p) # getpgrp(q)) => p = q

\* C2: a getLock that read the pid of a process that was not alive returns
\* without having slept, and the step by which it returns leaves the caller's
\* pid in the lock file.
StaleLockTakenAtOnce ==
    [][\A p \in Procs :
          (staleRead[p] /\ ~Holding(p) /\ Holding(p)')
              => /\ ~slept[p]
                 /\ lock' = [exists |-> TRUE, content |-> to_string(thisPID(p))]]_vars

\* C2 witness: a process holds the slot after it found a dead owner's pid
StaleLockTaken ==
    \E p \in Procs :
        /\ Holding(p)
        /\ staleRead[p]
        /\ ~alive(pid[p])
        /\ lock = [exists |-> TRUE, content |-> to_string(thisPID(p))]

\* the owner read by p is a live process of p's own process group
OwnerInSameGroup(p) ==
    /\ pid[p] \in Procs
    /\ alive(pid[p])
    /\ pgrp[pid[p]] = pgrp[p]

\* C3: when the recorded owner is a live process of the caller's process group,
\* getLock's group test returns at once: the caller holds the slot, has not
\* slept and has left the lock file alone; and no process polls or sleeps on an
\* owner of its own group.
SelfPipeEscape ==
    /\ [][\A p \in Procs :
            (pc[p] = "pgid" /\ OwnerInSameGroup(p) /\ pc'[p] \notin {"pgid", "dead"})
                => /\ Holding(p)'
                   /\ ~slept'[p]
                   /\ lock' = lock]_vars
    /\ [](\A p \in Procs :
            pc[p] \in {"recheck", "sleep"} => pgrp[pid[p]] # pgrp[p])

\* C3 witness: a process returned through the group test while the owner, alive
\* and in its group, still holds the slot and the file still records the owner
SelfPipeBypassed ==
    \E p \in Procs :
        /\ Holding(p)
        /\ bypassed[p]
        /\ OwnerInSameGroup(p)
        /\ Holding(pid[p])
        /\ lock = [exists |-> TRUE, content |-> to_string(pid[p])]

\* C4: getLock never ends with an error, whatever it finds at the lock path.
getLockNeverRaises == \A p \in Procs : pc[p] # "raised"

\* C5: releaseLock leaves no lock file, whatever the file recorded, and ends
\* normally also when there was no file.
ReleaseAlwaysDeletes ==
    [][\A p \in Procs :
          (Holding(p) /\ pc'[p] \notin {"held", "dead"})
              => /\ pc'[p] = "released"
                 /\ ~isLocked(p)']_vars

\* C5 witness: one process has removed a lock file that recorded another
\* process's pid, another has called releaseLock when there was no file
ReleasedForeignAndMissing ==
    \E p, q \in Procs :
        /\ removed[p] = "other"
        /\ removed[q] = "nofile"
        /\ ~isLocked(p)

\* C6: a process in the wait loop eventually returns from getLock (unless it is
\* killed there), and it leaves the loop only because the owner it read is gone
\* or because the lock file is gone.
WaiterProgress ==
    /\ \A p \in Procs : InWaitLoop(p) ~> (Holding(p) \/ pc[p] = "dead")
    /\ [][\A p \in Procs :
            (InWaitLoop(p) /\ ~InWaitLoop(p)' /\ pc'[p] # "dead")
                => /\ pc'[p] = "open"
                   /\ \/ pc[p] = "kill" /\ ~alive(pid[p])
                      \/ pc[p] = "recheck" /\ ~lock.exists]_vars

\* C6 witness: a process is still polling for the owner it read at entry while
\* another process has taken the slot in between and holds it
WaiterSeesNewOwner ==
    \E p, q \in Procs :
        /\ InWaitLoop(p)
        /\ slept[p]
        /\ q # pid[p]
        /\ Holding(q)
        /\ ~bypassed[q]
        /\ lock = [exists |-> TRUE, content |-> to_string(thisPID(q))]

(***************************************************************************)
(* Independence of the slots.                                              *)
(***************************************************************************)
\* process q has read an owner and not yet left getLock's if block
ReadOwner(q) == pc[q] \in {"pgid", "kill", "recheck", "sleep"}

\* C15: a step of getLock or releaseLock on one slot leaves the lock file of
\* every slot of another name as it is, and a process that waits in getLock
\* waits for an owner that works on the slot of the same name.
SlotsIndependent ==
    /\ [][\A p, q \in Procs :
            (path[p].this_name # path[q].this_name /\ pc'[p] # pc[p])
                => locks'[path[q].lock] = locks[path[q].lock]]_vars
    /\ [](\A q \in Procs :
            ReadOwner(q) => path[pid[q]].this_name = path[q].this_name)

\* processes of different groups hold the locks of two slots at the same
\* time, neither has slept, and each file records its own holder
TwoSlotsHeld ==
    \E p, q \in Procs :
        /\ path[p].this_name # path[q].this_name
        /\ pgrp[p] # pgrp[q]
        /\ Holding(p) /\ Holding(q)
        /\ ~slept[p] /\ ~slept[q]
        /\ metadata_lock(p).content = to_string(thisPID(p))
        /\ metadata_lock(q).content = to_string(thisPID(q))

(***************************************************************************)
(* The sniffer on short buffers.                                           *)
(***************************************************************************)
\* the buffer is too short to hold the signature of entry e at e's offset
Truncated(c, e) == Len(c) < e.offset + Len(e.sig)

\* C16: inferMIMEType never raises, returns none for the empty buffer, and
\* no table entry ever classifies a buffer that is shorter than the entry's
\* offset plus the length of its signature.
SniffTotalNoTruncatedMatch ==
    /\ mime # "out_of_range"
    /\ (mime # "unset" /\ content = <<>>) => mime = "nullopt"
    /\ \A i \in DOMAIN Table :
          Truncated(content, Table[i])
              => /\ ~beginning_matches(content, Table[i].sig, Table[i].offset)
                 /\ (mime \notin {"unset", "nullopt"} /\ mime = Table[i].mime)
                        => \E j \in DOMAIN Table :
                              /\ Table[j].mime = mime
                              /\ ~Truncated(content, Table[j])

\* a buffer that ends one byte before the end of a signature that sits at
\* an offset was sniffed and gave none
ShortBufferSniffed ==
    /\ mime = "nullopt"
    /\ \E i \in DOMAIN Table :
          /\ Table[i].offset > 0
          /\ content = Pad(Table[i].offset)
                          \o SubSeq(Table[i].sig, 1, Len(Table[i].sig) - 1)

(***************************************************************************)
(* The copy-conflict policy of a session.  The enum and the session's      *)
(* initial policy are in clipboard.hpp; the loop that calls userDecision   *)
(* is described in section 4.3 of the specification.                       *)
(***************************************************************************)
\* line 73: enum class CopyPolicy
CopyPolicy == {"ReplaceAll", "ReplaceOnce", "SkipOnce", "SkipAll", "Unknown"}

\* line 371: what userDecision(item) may return
userDecision == {"ReplaceAll", "ReplaceOnce", "SkipOnce", "SkipAll"}

\* a policy that asks again after SkipAll
AppliesToAllReplaceOnly(pol) == pol = "ReplaceAll"

\* the policies that are applied to every later conflict without asking
AppliesToAll(pol) == pol \in {"ReplaceAll", "SkipAll"}

\* the policies under which the existing target is replaced
Replaces(pol) == pol \in {"ReplaceAll", "ReplaceOnce"}

Outcome(pol) == IF Replaces(pol) THEN "replaced" ELSE "skipped"

\* an item whose target does not exist yet is copied, the policy is not used
CopyItem ==
    /\ Len(log) < MaxItems
    /\ log' = Append(log, [conflict |-> FALSE, policy |-> policy, asked |-> FALSE,
                            action |-> "copied"])
    /\ UNCHANGED <<policy, interactive>>

\* an item whose target exists: an all-policy is applied as it is; otherwise
\* an interactive session asks and takes the decision d as its policy, and a
\* session that cannot ask takes ReplaceAll
Conflict(d) ==
    /\ Len(log) < MaxItems
    /\ IF AppliesToAll(policy)
         THEN /\ policy' = policy
              /\ log' = Append(log, [conflict |-> TRUE, policy |-> policy,
                                      asked |-> FALSE, action |-> Outcome(policy)])
         ELSE IF interactive
         THEN /\ policy' = d
              /\ log' = Append(log, [conflict |-> TRUE, policy |-> policy,
                                      asked |-> TRUE, action |-> Outcome(d)])
         ELSE /\ policy' = "ReplaceAll"
              /\ log' = Append(log, [conflict |-> TRUE, policy |-> policy,
                                      asked |-> FALSE, action |-> "replaced"])
    /\ UNCHANGED interactive

CopyInit ==
    /\ policy = InitialPolicy
    /\ interactive \in BOOLEAN
    /\ log = <<>>
    /\ locks = NoLocks
    /\ SlotIdle /\ ProcsIdle /\ StoreIdle /\ CallIdle /\ MimeIdle /\ CountIdle
    /\ ProgressIdle

CopyNext ==
    /\ \/ CopyItem
       \/ \E d \in userDecision : Conflict(d)
    /\ UNCHANGED <<lockVars, storeVars, callVars, mimeVars, countVars, progressVars>>

CopySpec == CopyInit /\ [][CopyNext]_vars

\* C17: a session starts with the policy Unknown, and every conflicting item
\* met under the policy ReplaceAll or SkipAll is handled without a request
\* for a decision, leaves the policy as it is, and is replaced under
\* ReplaceAll and skipped under SkipAll.
AllPolicyAbsorbs ==
    /\ log = <<>> => policy = "Unknown"
    /\ \A i \in 1..Len(log) :
          (log[i].conflict /\ log[i].policy \in {"ReplaceAll", "SkipAll"})
              => /\ ~log[i].asked
                 /\ log[i].action
                       = (IF log[i].policy = "ReplaceAll" THEN "replaced" ELSE "skipped")
                 /\ (IF i < Len(log) THEN log[i + 1].policy ELSE policy) = log[i].policy

\* the user answered SkipAll at the first conflict, and two later conflicts
\* were skipped without a question
SkipAllApplied ==
    /\ Len(log) >= 3
    /\ \E i \in 1..(Len(log) - 2) :
          /\ log[i].conflict /\ log[i].asked /\ log[i].policy = "Unknown"
          /\ log[i + 1].conflict /\ log[i + 1].policy = "SkipAll"
          /\ log[i + 2].conflict /\ log[i + 2].action = "skipped"
    /\ policy = "SkipAll"

(***************************************************************************)
(* The success counters (struct Successes, incrementSuccessesForItem).     *)
(***************************************************************************)
\* what an item may be; fs::is_directory is true of a directory only
Items == {"file", "directory", "missing"}

is_directory(item) == item = "directory"

\* an increment that works on a copy of the counter
IncrementedCopy(v) == v

\* std::atomic<unsigned long>::operator++(int): one atomic read-modify-write
Incremented(v) == v + 1

\* lines 307-309: fs::is_directory(item) ? successes.directories++ : successes.files++;
incrementSuccessesForItem(item) ==
    /\ calls < MaxCalls
    /\ successes' = IF is_directory(item)
                      THEN [successes EXCEPT !.directories = Incremented(@)]
                      ELSE [successes EXCEPT !.files = Incremented(@)]
    /\ calls' = calls + 1
    /\ UNCHANGED <<seen, regressed>>

\* the reporting thread loads one counter
Load(c) ==
    /\ seen' = [seen EXCEPT ![c] = successes[c]]
    /\ regressed' = (regressed \/ successes[c] < seen[c])
    /\ UNCHANGED <<successes, calls>>

CountInit ==
    /\ successes = NoSuccesses
    /\ seen = NoSuccesses
    /\ calls = 0
    /\ regressed = FALSE
    /\ locks = NoLocks
    /\ SlotIdle /\ ProcsIdle /\ StoreIdle /\ CallIdle /\ MimeIdle /\ CopyIdle
    /\ ProgressIdle

CountNext ==
    /\ \/ \E item \in Items : incrementSuccessesForItem(item)
       \/ \E c \in DOMAIN successes : Load(c)
    /\ UNCHANGED <<lockVars, storeVars, callVars, mimeVars, copyVars, progressVars>>

CountSpec == CountInit /\ [][CountNext]_vars

\* C18: no read of a counter returns less than the read before it, every
\* call of incrementSuccessesForItem raises exactly one of files and
\* directories by exactly 1 and leaves bytes and clipboards alone, and after
\* N calls files + directories has grown by N.
CountersOnlyGrow ==
    /\ [](~regressed)
    /\ [](successes.files + successes.directories = calls)
    /\ [][calls' = calls + 1 =>
            /\ \/ /\ successes'.files = successes.files + 1
                  /\ successes'.directories = successes.directories
               \/ /\ successes'.files = successes.files
                  /\ successes'.directories = successes.directories + 1
            /\ successes'.bytes = successes.bytes
            /\ successes'.clipboards = successes.clipboards]_vars

\* files and directories were both counted, and the reporting thread read
\* the file counter between two increments
ReadBetweenIncrements ==
    /\ successes.files >= 2
    /\ successes.directories >= 1
    /\ seen.files >= 1
    /\ seen.files < successes.files

(***************************************************************************)
(* Overriding the lock of a live owner.                                    *)
(***************************************************************************)
\* process p, which found the slot locked and read an owner at entry, leaves
\* the wait loop and takes the step of writeToFile that replaces the content
\* of an existing lock file in which a pid is recorded
Overwrites(p) ==
    /\ pc[p] = "open" /\ pc'[p] = "write"
    /\ pid[p] # 0
    /\ metadata_lock(p).exists
    /\ metadata_lock(p).content # <<>>

\* C20: whenever getLock, called on a locked slot, overwrites the existing
\* lock file with the caller's pid, the pid recorded in the file at that
\* moment is the pid of a process that is not alive, also when the owner
\* changed while the caller was waiting.
LiveOwnerNeverOverridden ==
    [][\A p \in Procs :
          Overwrites(p) => ~alive(stoi(metadata_lock(p).content))]_vars

(***************************************************************************)
(* Cancellation and the lock wait.                                         *)
(***************************************************************************)
\* an interrupt reaches a process: its progress_state becomes Cancel
Cancel(p) ==
    /\ alive(p)
    /\ progress_state[p] # "Cancel"
    /\ progress_state' = [progress_state EXCEPT ![p] = "Cancel"]
    /\ UNCHANGED <<lockVars, storeVars, callVars, mimeVars, copyVars, countVars>>

CancelNext == Next \/ \E p \in Procs : Cancel(p)

\* a step of getLock of process p
Poll(p) ==
    /\ getLockStep(p)
    /\ UNCHANGED <<storeVars, callVars, mimeVars, sessionVars>>

\* The lock protocol with interrupts.  A process inside getLock keeps taking
\* the steps of getLock; nothing makes the holder of a slot release it.
CancelSpec ==
    /\ Init
    /\ [][CancelNext]_vars
    /\ \A p \in Procs : WF_vars(Poll(p))

\* process p is in the wait loop and has been told to cancel
CancelledInWait(p) == InWaitLoop(p) /\ progress_state[p] = "Cancel"

\* the owner p read at entry is a live process of another group and the lock
\* file is still there
OwnerKeepsSlot(p) ==
    /\ pid[p] \in Procs
    /\ alive(pid[p])
    /\ pgrp[pid[p]] # pgrp[p]
    /\ isLocked(p)

\* C21: a process whose progress status is Cancel while it polls in getLock's
\* wait loop leaves the loop, also when the live owner of another group keeps
\* the slot for ever: it does not go on polling until the owner has released
\* or died.
CancelReachesLockWait ==
    \A p \in Procs :
        CancelledInWait(p) ~> (~InWaitLoop(p) \/ ~OwnerKeepsSlot(p))

(***************************************************************************)
(* What the lock file records when getLock returns.                        *)
(***************************************************************************)
\* the step by which getLock of process p returns
Returns(p) == ~Holding(p) /\ Holding(p)'

\* a step of getLock of process p before the wait loop and the write
BeforeWrite(p) ==
    /\ pc[p] \in {"idle", "read", "pgid"}
    /\ pc'[p] \notin {pc[p], "dead"}

\* C22: a getLock that returns at the group test has left every lock file as
\* it was at each of its steps (only another process's step changes what the
\* file records meanwhile), and the file does not record the caller's pid when
\* it returns; a getLock that returns in any other way returns from the write,
\* and the lock file records the caller's pid at that moment.
ReturnRecordsOwner ==
    [][\A p \in Procs :
          /\ BeforeWrite(p) => locks' = locks
          /\ Returns(p) =>
                IF pc[p] = "pgid"
                  THEN /\ bypassed'[p]
                       /\ fileContents(p)' # to_string(thisPID(p))
                  ELSE /\ pc[p] = "write"
                       /\ metadata_lock(p)' =
                              [exists |-> TRUE, content |-> to_string(thisPID(p))]]_vars

\* C22 witness: process q went through the write and holds the slot, process
\* p of its group read q's pid and returned at the group test, and the file
\* still records q and not p
BypassLeftOwnerRecorded ==
    \E p, q \in Procs :
        /\ p # q
        /\ Holding(q) /\ ~bypassed[q]
        /\ Holding(p) /\ bypassed[p]
        /\ pid[p] = q
        /\ fileContents(p) = to_string(thisPID(q))
        /\ fileContents(p) # to_string(thisPID(p))

=============================================================================
